---- MODULE Spec2Model ----
(***************************************************************************)
(* Knowledge base of kud0/NHYD: chunking, indexing, hybrid retrieval and   *)
(* the query API (lib/knowledge.ts, lib/embeddings.ts,                     *)
(* app/api/knowledge/search/route.ts).                                     *)
(***************************************************************************)
EXTENDS Integers, Sequences, FiniteSets, TLC

(***************************************************************************)
(* Strings.  A string is a sequence of runs [c |-> character, n |-> count] *)
(* in which adjacent runs carry different characters, so that a sentence   *)
(* of 1600 characters is one run and the chunker's real limits (500 and 50 *)
(* tokens) can be used as they are.                                        *)
(***************************************************************************)
NULL == "null"

\* an optional value that is not a string: absent, or present
None == <<>>

Some(x) == <<x>>

\* SQL NULL in the embedding column
NullVector == <<>>

Run(ch, k) == [c |-> ch, n |-> k]

Rep(ch, k) == IF k = 0 THEN <<>> ELSE <<Run(ch, k)>>

Cat(s, t) ==
  IF s = <<>> THEN t
  ELSE IF t = <<>> THEN s
  ELSE IF s[Len(s)].c = t[1].c
       THEN SubSeq(s, 1, Len(s) - 1)
              \o <<Run(t[1].c, s[Len(s)].n + t[1].n)>>
              \o SubSeq(t, 2, Len(t))
       ELSE s \o t

RECURSIVE Lit(_)
Lit(chars) ==
  IF chars = <<>> THEN <<>>
  ELSE Cat(<<Run(chars[1], 1)>>, Lit(Tail(chars)))

RECURSIVE StrLen(_)
StrLen(s) == IF s = <<>> THEN 0 ELSE s[1].n + StrLen(Tail(s))

WhiteSpace == {" ", "\n"}

Punct == {".", "!", "?"}

UpperCase ==
  <<"A", "B", "C", "D", "E", "F", "G", "H", "I", "J", "K", "L", "M",
    "N", "O", "P", "Q", "R", "S", "T", "U", "V", "W", "X", "Y", "Z">>

LowerCase ==
  <<"a", "b", "c", "d", "e", "f", "g", "h", "i", "j", "k", "l", "m",
    "n", "o", "p", "q", "r", "s", "t", "u", "v", "w", "x", "y", "z">>

LowerOf(ch) ==
  IF \E k \in 1..Len(UpperCase) : UpperCase[k] = ch
  THEN LowerCase[CHOOSE k \in 1..Len(UpperCase) : UpperCase[k] = ch]
  ELSE ch

RECURSIVE toLowerCase(_)
toLowerCase(s) ==
  IF s = <<>> THEN <<>>
  ELSE Cat(<<Run(LowerOf(s[1].c), s[1].n)>>, toLowerCase(Tail(s)))

\* String.prototype.includes on run sequences: q occurs in s.
includes(s, q) ==
  IF q = <<>> THEN TRUE
  ELSE IF Len(q) = 1
  THEN \E i \in 1..Len(s) : s[i].c = q[1].c /\ s[i].n >= q[1].n
  ELSE \E i \in 1..(Len(s) - Len(q) + 1) :
         /\ s[i].c = q[1].c /\ s[i].n >= q[1].n
         /\ \A j \in 2..(Len(q) - 1) : s[i + j - 1] = q[j]
         /\ s[i + Len(q) - 1].c = q[Len(q)].c
         /\ s[i + Len(q) - 1].n >= q[Len(q)].n

RECURSIVE trimStart(_)
trimStart(s) ==
  IF s # <<>> /\ s[1].c \in WhiteSpace THEN trimStart(Tail(s)) ELSE s

RECURSIVE trimEnd(_)
trimEnd(s) ==
  IF s # <<>> /\ s[Len(s)].c \in WhiteSpace
  THEN trimEnd(SubSeq(s, 1, Len(s) - 1))
  ELSE s

trim(s) == trimEnd(trimStart(s))

(***************************************************************************)
(* Chunker (lib/embeddings.ts)                                             *)
(***************************************************************************)
MAX_CHUNK_TOKENS == 500

CHUNK_OVERLAP == 50

estimateTokens(text) == (StrLen(text) + 3) \div 4

\* text.split(/(?<=[.!?])\s+/)
RECURSIVE SplitSentencesFrom(_, _, _, _)
SplitSentencesFrom(text, i, cur, acc) ==
  IF i > Len(text) THEN Append(acc, cur)
  ELSE IF /\ text[i].c \in WhiteSpace
          /\ cur # <<>>
          /\ cur[Len(cur)].c \in Punct
       THEN LET rest == {j \in i..Len(text) : text[j].c \notin WhiteSpace}
                nxt == IF rest = {} THEN Len(text) + 1
                       ELSE CHOOSE j \in rest : \A k \in rest : j <= k
            IN SplitSentencesFrom(text, nxt, <<>>, Append(acc, cur))
       ELSE SplitSentencesFrom(text, i + 1, Cat(cur, <<text[i]>>), acc)

SplitSentences(text) == SplitSentencesFrom(text, 1, <<>>, <<>>)

\* currentChunk.split(' ')
RECURSIVE SplitSpacesFrom(_, _, _, _)
SplitSpacesFrom(text, i, cur, acc) ==
  IF i > Len(text) THEN Append(acc, cur)
  ELSE IF text[i].c = " "
       THEN SplitSpacesFrom(text, i + 1, <<>>,
              Append(acc, cur) \o [k \in 1..(text[i].n - 1) |-> <<>>])
       ELSE SplitSpacesFrom(text, i + 1, Cat(cur, <<text[i]>>), acc)

SplitSpaces(text) == SplitSpacesFrom(text, 1, <<>>, <<>>)

\* the backward walk over the words of the flushed chunk
RECURSIVE OverlapFrom(_, _, _, _)
OverlapFrom(words, i, overlap, overlapCount) ==
  IF i >= 1 /\ overlapCount < CHUNK_OVERLAP
  THEN OverlapFrom(words, i - 1,
                   Cat(Cat(words[i], Lit(<<" ">>)), overlap),
                   overlapCount + estimateTokens(words[i]))
  ELSE overlap

\* a variant that starts the next chunk without overlap
OverlapNone(currentChunk) == <<>>

Overlap(currentChunk) ==
  LET words == SplitSpaces(currentChunk)
  IN OverlapFrom(words, Len(words), <<>>, 0)

\* a variant that leaves out a sentence too long for one chunk
ChunkStepSkipLong(st, sentence, maxTokens) ==
  IF estimateTokens(sentence) > maxTokens THEN st
  ELSE [chunks |-> st.chunks,
        currentChunk |->
          Cat(Cat(st.currentChunk,
                  IF st.currentChunk # <<>> THEN Lit(<<" ">>) ELSE <<>>),
              sentence),
        currentTokens |-> st.currentTokens + estimateTokens(sentence)]

\* a variant that starts the next chunk with the overlap alone
ChunkStepDropAtFlush(st, sentence, maxTokens) ==
  LET sentenceTokens == estimateTokens(sentence)
  IN IF st.currentTokens + sentenceTokens > maxTokens /\ st.currentChunk # <<>>
     THEN LET next == Overlap(st.currentChunk)
          IN [chunks |-> Append(st.chunks, trim(st.currentChunk)),
              currentChunk |-> next,
              currentTokens |-> estimateTokens(next)]
     ELSE [chunks |-> st.chunks,
           currentChunk |->
             Cat(Cat(st.currentChunk,
                     IF st.currentChunk # <<>> THEN Lit(<<" ">>) ELSE <<>>),
                 sentence),
           currentTokens |-> st.currentTokens + sentenceTokens]

\* one iteration of the loop over the sentences
ChunkStep(st, sentence, maxTokens) ==
  LET sentenceTokens == estimateTokens(sentence)
  IN IF st.currentTokens + sentenceTokens > maxTokens /\ st.currentChunk # <<>>
     THEN LET next == Cat(Overlap(st.currentChunk), sentence)
          IN [chunks |-> Append(st.chunks, trim(st.currentChunk)),
              currentChunk |-> next,
              currentTokens |-> estimateTokens(next)]
     ELSE [chunks |-> st.chunks,
           currentChunk |->
             Cat(Cat(st.currentChunk,
                     IF st.currentChunk # <<>> THEN Lit(<<" ">>) ELSE <<>>),
                 sentence),
           currentTokens |-> st.currentTokens + sentenceTokens]

RECURSIVE ChunkLoop(_, _, _, _)
ChunkLoop(sentences, i, st, maxTokens) ==
  IF i > Len(sentences) THEN st
  ELSE ChunkLoop(sentences, i + 1, ChunkStep(st, sentences[i], maxTokens),
                 maxTokens)

\* a variant that pushes what is left without looking at it
chunkTextMaxUnguarded(text, maxTokens) ==
  LET st == ChunkLoop(SplitSentences(text), 1,
                      [chunks |-> <<>>, currentChunk |-> <<>>,
                       currentTokens |-> 0], maxTokens)
  IN Append(st.chunks, trim(st.currentChunk))

chunkTextMax(text, maxTokens) ==
  LET st == ChunkLoop(SplitSentences(text), 1,
                      [chunks |-> <<>>, currentChunk |-> <<>>,
                       currentTokens |-> 0], maxTokens)
  IN IF trim(st.currentChunk) # <<>>
     THEN Append(st.chunks, trim(st.currentChunk))
     ELSE st.chunks

chunkText(text) == chunkTextMax(text, MAX_CHUNK_TOKENS)

(***************************************************************************)
(* Similarity values.  A similarity is kept exactly as p / sqrt(q2): the   *)
(* cosine of two integer vectors is dot / sqrt(normA * normB), and the     *)
(* literals 0.95, 0.85, 0.5, 0.2 are 95/sqrt(10000), ...  q2 = 0 is NaN.   *)
(***************************************************************************)
Sim(p, q2) == [p |-> p, q2 |-> q2]

TITLE_MATCH_SCORE == Sim(95, 10000)

TEXT_MATCH_SCORE == Sim(85, 10000)

DEFAULT_MIN_SIMILARITY == Sim(2, 100)

ROUTE_MIN_SIMILARITY == Sim(5, 100)

\* a >= b on numbers; false when either is NaN
SimGE(a, b) ==
  /\ a.q2 # 0
  /\ b.q2 # 0
  /\ IF a.p >= 0 /\ b.p <= 0 THEN TRUE
     ELSE IF a.p < 0 /\ b.p >= 0 THEN FALSE
     ELSE IF a.p >= 0
          THEN a.p * a.p * b.q2 >= b.p * b.p * a.q2
          ELSE a.p * a.p * b.q2 <= b.p * b.p * a.q2

SimGT(a, b) == SimGE(a, b) /\ ~SimGE(b, a)

RECURSIVE Dot(_, _)
Dot(a, b) ==
  IF a = <<>> THEN 0 ELSE a[1] * b[1] + Dot(Tail(a), Tail(b))

\* a variant that divides by the norm of a alone
cosineSimilarityOneNorm(a, b) == Sim(Dot(a, b), Dot(a, a))

cosineSimilarity(a, b) == Sim(Dot(a, b), Dot(a, a) * Dot(b, b))

(***************************************************************************)
(* Inputs of the model                                                     *)
(***************************************************************************)
MaxCalls == 2

MaxDeletes == 1

Calls == 1..MaxCalls

Space == Lit(<<" ">>)

\* "Glu a."  (one sentence, one chunk)
ShortText == Lit(<<"G", "l", "u", " ", "a", ".">>)

\* a sentence of 403 tokens ending in a word of 51 tokens that holds "Glu"
LongSentence1 ==
  Cat(Cat(Rep("b", 1400), Space),
      Cat(Lit(<<"G", "l", "u">>), Cat(Rep("a", 200), Lit(<<".">>))))

\* a sentence of 251 tokens
LongSentence2 == Cat(Rep("A", 1000), Lit(<<"!">>))

\* two sentences, two chunks
LongText == Cat(Cat(LongSentence1, Lit(<<" ", "\n">>)), LongSentence2)

Contents == {ShortText, LongText}

TitleGlu == Lit(<<"E", "l", " ", "G", "L", "U">>)

MetaTranscript ==
  [sourceType |-> "transcript", sourceId |-> "t1", lessonId |-> "l1",
   subjectId |-> "sub1", programId |-> NULL, title |-> Some(TitleGlu),
   tags |-> {"transcript"}]

MetaSlide ==
  [sourceType |-> "slide", sourceId |-> "s1", lessonId |-> "l2",
   subjectId |-> NULL, programId |-> "p1", title |-> None, tags |-> {}]

Metas == {MetaTranscript, MetaSlide}

Keys == {<<m.sourceType, m.sourceId>> : m \in Metas}

\* what the embedding provider may answer
Vectors == {<<1, 0>>, <<1, 1>>}

\* what it may answer for a query
QueryVectors == {<<1, 0>>, <<0, 1>>, <<2, 1>>}

(***************************************************************************)
(* State                                                                   *)
(***************************************************************************)
VARIABLES
  store,    \* the knowledge_chunks table: a set of rows
  calls,    \* the indexContent calls, by call number
  del,      \* the last deleteIndexedContent call and what it returned
  req,      \* the requests the search route is serving, by caller
  chunker,  \* a call of chunkText: its arguments and what it returned
  cosine    \* a call of cosineSimilarity: its arguments and what it returned

vars == <<store, calls, del, req, chunker, cosine>>

NoMeta ==
  [sourceType |-> NULL, sourceId |-> NULL, lessonId |-> NULL,
   subjectId |-> NULL, programId |-> NULL, title |-> None, tags |-> {}]

IdleCall ==
  [pc |-> "idle", content |-> <<>>, meta |-> NoMeta, chunks |-> <<>>, i |-> 0,
   embedding |-> NullVector, rowId |-> <<>>, chunkIds |-> <<>>, ret |-> <<>>,
   existing |-> FALSE, err |-> NULL, wroteBefore |-> {}, delSince |-> FALSE]

NoWhere ==
  [sourceTypes |-> {}, subjectId |-> NULL, lessonId |-> NULL,
   programId |-> NULL]

NoBody ==
  [query |-> [isString |-> FALSE, text |-> <<>>], limit |-> None,
   filters |-> [sourceTypes |-> {}, subjectId |-> NULL, lessonId |-> NULL,
                programId |-> NULL, minSimilarity |-> None],
   includeAnswer |-> FALSE]

IdleReq ==
  [pc |-> "idle", body |-> NoBody, where |-> NoWhere, limit |-> 0,
   minSimilarity |-> Sim(0, 1), textMatches |-> <<>>, results |-> <<>>,
   queryEmbedding |-> NullVector, chunks |-> <<>>, failed |-> {},
   accessed |-> FALSE, ret |-> <<>>, context |-> <<>>,
   response |-> [status |-> 0]]

\* the callers of the route: requests of different callers run concurrently
Callers == {"caller1", "caller2"}

IdleChunker == [pc |-> "idle", text |-> <<>>, maxTokens |-> 0, chunks |-> <<>>]

IdleCosine == [pc |-> "idle", a |-> <<>>, b |-> <<>>, ret |-> Sim(0, 0)]

Init ==
  /\ store = {}
  /\ calls = [c \in Calls |-> IdleCall]
  /\ del = [n |-> 0, sourceType |-> NULL, sourceId |-> NULL, count |-> 0]
  /\ req = [q \in Callers |-> IdleReq]
  /\ chunker = IdleChunker
  /\ cosine = IdleCosine

(***************************************************************************)
(* Indexer (lib/knowledge.ts, indexContent and deleteIndexedContent)       *)
(***************************************************************************)
Ended(c) == calls[c].pc \in {"returned", "thrown"}

Running(c) == calls[c].pc \in {"embed", "create", "update"}

KeyOf(m) == <<m.sourceType, m.sourceId>>

RowsOf(sourceType, sourceId) ==
  {r \in store : r.sourceType = sourceType /\ r.sourceId = sourceId}

\* prisma.knowledgeChunk.findFirst({ where: { sourceType, sourceId } })
FindFirstSwapped(sourceType, sourceId) ==
  \E r \in store : r.sourceType = sourceId /\ r.sourceId = sourceType

FindFirst(sourceType, sourceId) ==
  \E r \in store : r.sourceType = sourceType /\ r.sourceId = sourceId

\* the calls that have created a row under the key so far (history)
Writers(key) ==
  {d \in Calls : /\ KeyOf(calls[d].meta) = key
                 /\ (calls[d].chunkIds # <<>> \/ calls[d].pc = "update")}

\* calls are numbered in the order in which they are made
IsNextCall(c) ==
  /\ calls[c].pc = "idle"
  /\ \A d \in Calls : d < c => calls[d].pc # "idle"

\* the call, the existence check and the chunking
IndexCall(c, content, metadata) ==
  /\ IsNextCall(c)
  /\ LET existing == FindFirst(metadata.sourceType, metadata.sourceId)
         chunks == chunkText(content)
         base == [calls[c] EXCEPT !.content = content, !.meta = metadata,
                                  !.existing = existing,
                                  !.wroteBefore = Writers(KeyOf(metadata))]
     IN calls' = [calls EXCEPT ![c] =
          IF existing
          THEN [base EXCEPT !.pc = "returned", !.ret = <<>>]
          ELSE IF chunks = <<>>
          THEN [base EXCEPT !.pc = "returned", !.ret = <<>>]
          ELSE [base EXCEPT !.pc = "embed", !.chunks = chunks, !.i = 1]]
  /\ UNCHANGED <<store, del, req, chunker, cosine>>

\* findFirst rejects
IndexCallThrow(c) ==
  /\ IsNextCall(c)
  /\ calls' = [calls EXCEPT ![c] =
       [@ EXCEPT !.pc = "thrown", !.err = "findFirst"]]
  /\ UNCHANGED <<store, del, req, chunker, cosine>>

\* const embedding = await generateEmbedding(chunkContent)
Embed(c, v) ==
  /\ calls[c].pc = "embed"
  /\ calls' = [calls EXCEPT ![c] = [@ EXCEPT !.pc = "create", !.embedding = v]]
  /\ UNCHANGED <<store, del, req, chunker, cosine>>

\* a variant that swallows the provider's error and goes on without a vector
EmbedThrowSwallowed(c) ==
  /\ calls[c].pc = "embed"
  /\ calls' = [calls EXCEPT ![c] =
       [@ EXCEPT !.pc = "create", !.embedding = NullVector, !.err = "embed"]]
  /\ UNCHANGED <<store, del, req, chunker, cosine>>

\* generateEmbedding rejects: nothing catches it inside indexContent
EmbedThrow(c) ==
  /\ calls[c].pc = "embed"
  /\ calls' = [calls EXCEPT ![c] = [@ EXCEPT !.pc = "thrown", !.err = "embed"]]
  /\ UNCHANGED <<store, del, req, chunker, cosine>>

\* the id the store gives a new row (@default(cuid())): unique, here the
\* number of the creating call and of the chunk within it
NewId(c, i) == <<c, i>>

\* a variant that leaves the title out of the row
NewRowUntitled(id, chunkContent, m) ==
  [id |-> id, content |-> chunkContent,
   sourceType |-> m.sourceType, sourceId |-> m.sourceId,
   lessonId |-> m.lessonId, subjectId |-> m.subjectId,
   programId |-> m.programId, title |-> None,
   tags |-> m.tags, tokenCount |-> estimateTokens(chunkContent),
   embedding |-> NullVector]

\* the row prisma.knowledgeChunk.create({ data: ... }) inserts
NewRow(id, chunkContent, m) ==
  [id |-> id, content |-> chunkContent,
   sourceType |-> m.sourceType, sourceId |-> m.sourceId,
   lessonId |-> m.lessonId, subjectId |-> m.subjectId,
   programId |-> m.programId, title |-> m.title,
   tags |-> m.tags, tokenCount |-> estimateTokens(chunkContent),
   embedding |-> NullVector]

\* const chunk = await prisma.knowledgeChunk.create({ data: ... })
Create(c) ==
  /\ calls[c].pc = "create"
  /\ LET row == NewRow(NewId(c, calls[c].i), calls[c].chunks[calls[c].i],
                       calls[c].meta)
     IN /\ store' = store \cup {row}
        /\ calls' = [calls EXCEPT ![c] =
             [@ EXCEPT !.pc = "update", !.rowId = row.id]]
  /\ UNCHANGED <<del, req, chunker, cosine>>

CreateThrow(c) ==
  /\ calls[c].pc = "create"
  /\ calls' = [calls EXCEPT ![c] =
       [@ EXCEPT !.pc = "thrown", !.err = "create", !.embedding = NullVector]]
  /\ UNCHANGED <<store, del, req, chunker, cosine>>

\* UPDATE knowledge_chunks SET embedding = ... WHERE id = chunk.id; push; next
Update(c) ==
  /\ calls[c].pc = "update"
  /\ store' = {IF r.id = calls[c].rowId
               THEN [r EXCEPT !.embedding = calls[c].embedding]
               ELSE r : r \in store}
  /\ LET chunkIds == Append(calls[c].chunkIds, calls[c].rowId)
     IN calls' = [calls EXCEPT ![c] =
          IF calls[c].i = Len(calls[c].chunks)
          THEN [@ EXCEPT !.pc = "returned", !.chunkIds = chunkIds,
                         !.ret = chunkIds, !.embedding = NullVector]
          ELSE [@ EXCEPT !.pc = "embed", !.chunkIds = chunkIds,
                         !.i = @ + 1, !.embedding = NullVector]]
  /\ UNCHANGED <<del, req, chunker, cosine>>

UpdateThrow(c) ==
  /\ calls[c].pc = "update"
  /\ calls' = [calls EXCEPT ![c] =
       [@ EXCEPT !.pc = "thrown", !.err = "update", !.embedding = NullVector]]
  /\ UNCHANGED <<store, del, req, chunker, cosine>>

\* a variant that empties the table
deleteEverything(sourceType, sourceId) ==
  /\ del.n < MaxDeletes
  /\ store' = {}
  /\ del' = [n |-> del.n + 1, sourceType |-> sourceType,
             sourceId |-> sourceId, count |-> Cardinality(store)]
  /\ calls' = [c \in Calls |->
       IF /\ KeyOf(calls[c].meta) = <<sourceType, sourceId>>
          /\ calls[c].pc # "idle"
       THEN [calls[c] EXCEPT !.delSince = TRUE]
       ELSE calls[c]]
  /\ UNCHANGED <<req, chunker, cosine>>

\* prisma.knowledgeChunk.deleteMany({ where: { sourceType, sourceId } })
deleteIndexedContent(sourceType, sourceId) ==
  /\ del.n < MaxDeletes
  /\ store' = store \ RowsOf(sourceType, sourceId)
  /\ del' = [n |-> del.n + 1, sourceType |-> sourceType,
             sourceId |-> sourceId,
             count |-> Cardinality(RowsOf(sourceType, sourceId))]
  /\ calls' = [c \in Calls |->
       IF /\ KeyOf(calls[c].meta) = <<sourceType, sourceId>>
          /\ calls[c].pc # "idle"
       THEN [calls[c] EXCEPT !.delSince = TRUE]
       ELSE calls[c]]
  /\ UNCHANGED <<req, chunker, cosine>>

Quiescent == \A c \in Calls : ~Running(c)

IndexStep(c) ==
  \/ \E v \in Vectors : Embed(c, v)
  \/ EmbedThrow(c)
  \/ Create(c)
  \/ CreateThrow(c)
  \/ Update(c)
  \/ UpdateThrow(c)

\* index and delete calls in any interleaving
NextIndex ==
  \/ \E c \in Calls, content \in Contents, m \in Metas :
       IndexCall(c, content, m)
  \/ \E c \in Calls : IndexCallThrow(c)
  \/ \E c \in Calls : IndexStep(c)
  \/ \E k \in Keys : deleteIndexedContent(k[1], k[2])

Spec == Init /\ [][NextIndex]_vars

\* index and delete calls one at a time
NextSerial ==
  \/ /\ Quiescent
     /\ \/ \E c \in Calls, content \in Contents, m \in Metas :
             IndexCall(c, content, m)
        \/ \E c \in Calls : IndexCallThrow(c)
  \/ \E c \in Calls : IndexStep(c)
  \/ /\ Quiescent
     /\ \E k \in Keys : deleteIndexedContent(k[1], k[2])

SpecSerial == Init /\ [][NextSerial]_vars

(***************************************************************************)
(* Hybrid retriever (lib/knowledge.ts, searchKnowledge) behind the query   *)
(* API (app/api/knowledge/search/route.ts, POST)                           *)
(***************************************************************************)
DEFAULT_LIMIT == 10

SEMANTIC_TAKE == 500

ROUTE_CONTENT_CHARS == 500

RECURSIVE Perms(_)
Perms(S) ==
  IF S = {} THEN {<<>>}
  ELSE UNION {{<<x>> \o p : p \in Perms(S \ {x})} : x \in S}

\* findMany({ take: n }) over rows the database returns in an order of its own
Take(seq, n) == SubSeq(seq, 1, IF Len(seq) < n THEN Len(seq) ELSE n)

\* the where clause built from the options
WhereOf(filters) ==
  [sourceTypes |-> filters.sourceTypes, subjectId |-> filters.subjectId,
   lessonId |-> filters.lessonId, programId |-> filters.programId]

\* a variant of the where clause that keeps the source types alone
SatisfiesSourceTypes(r, where) ==
  where.sourceTypes = {} \/ r.sourceType \in where.sourceTypes

Satisfies(r, where) ==
  /\ where.sourceTypes = {} \/ r.sourceType \in where.sourceTypes
  /\ where.subjectId = NULL \/ r.subjectId = where.subjectId
  /\ where.lessonId = NULL \/ r.lessonId = where.lessonId
  /\ where.programId = NULL \/ r.programId = where.programId

\* { contains: query, mode: 'insensitive' }
ContainsInsensitive(field, query) ==
  includes(toLowerCase(field), toLowerCase(query))

TextMatch(r, query) ==
  \/ ContainsInsensitive(r.content, query)
  \/ r.title # None /\ ContainsInsensitive(r.title[1], query)

\* the fields the two findMany calls select
Selected(r) ==
  [id |-> r.id, content |-> r.content, sourceType |-> r.sourceType,
   sourceId |-> r.sourceId, lessonId |-> r.lessonId,
   subjectId |-> r.subjectId, title |-> r.title, tags |-> r.tags]

WithSimilarity(chunk, similarity) ==
  [id |-> chunk.id, content |-> chunk.content,
   sourceType |-> chunk.sourceType, sourceId |-> chunk.sourceId,
   lessonId |-> chunk.lessonId, subjectId |-> chunk.subjectId,
   title |-> chunk.title, tags |-> chunk.tags, similarity |-> similarity]

\* chunk.title?.toLowerCase().includes(query.toLowerCase())
TitleMatch(chunk, query) ==
  /\ chunk.title # None
  /\ includes(toLowerCase(chunk.title[1]), toLowerCase(query))

ScoreSwapped(chunk, query) ==
  IF TitleMatch(chunk, query) THEN TEXT_MATCH_SCORE ELSE TITLE_MATCH_SCORE

Score(chunk, query) ==
  IF TitleMatch(chunk, query) THEN TITLE_MATCH_SCORE ELSE TEXT_MATCH_SCORE

\* a variant in which the Map never reports a key
HasNever(results, id) == FALSE

\* results, a Map keyed by id, as the sequence of its values in insertion order
Has(results, id) == \E k \in 1..Len(results) : results[k].id = id

\* results.set(id, value): replaces in place, or appends
MapSet(results, value) ==
  IF Has(results, value.id)
  THEN [k \in 1..Len(results) |->
          IF results[k].id = value.id THEN value ELSE results[k]]
  ELSE Append(results, value)

RECURSIVE AddTextMatches(_, _, _)
AddTextMatches(results, textMatches, query) ==
  IF textMatches = <<>> THEN results
  ELSE AddTextMatches(
         MapSet(results,
                WithSimilarity(textMatches[1], Score(textMatches[1], query))),
         Tail(textMatches), query)

\* a variant of the loop that keeps a chunk whatever its similarity
RECURSIVE AddSemanticAll(_, _, _, _, _)
AddSemanticAll(results, chunks, embeddingMap, queryEmbedding, minSimilarity) ==
  IF chunks = <<>> THEN results
  ELSE LET chunk == chunks[1]
           hit == {e \in embeddingMap : e.id = chunk.id}
           similarity ==
             cosineSimilarity(queryEmbedding,
                              (CHOOSE e \in hit : TRUE).embedding)
           next ==
             IF Has(results, chunk.id) THEN results
             ELSE IF hit = {} THEN results
             ELSE MapSet(results, WithSimilarity(chunk, similarity))
       IN AddSemanticAll(next, Tail(chunks), embeddingMap, queryEmbedding,
                         minSimilarity)

\* the loop over the fetched chunks
RECURSIVE AddSemantic(_, _, _, _, _)
AddSemantic(results, chunks, embeddingMap, queryEmbedding, minSimilarity) ==
  IF chunks = <<>> THEN results
  ELSE LET chunk == chunks[1]
           hit == {e \in embeddingMap : e.id = chunk.id}
           similarity ==
             cosineSimilarity(queryEmbedding,
                              (CHOOSE e \in hit : TRUE).embedding)
           next ==
             IF Has(results, chunk.id) THEN results
             ELSE IF hit = {} THEN results
             ELSE IF SimGE(similarity, minSimilarity)
             THEN MapSet(results, WithSimilarity(chunk, similarity))
             ELSE results
       IN AddSemantic(next, Tail(chunks), embeddingMap, queryEmbedding,
                      minSimilarity)

\* a variant that sorts by a.similarity - b.similarity
RECURSIVE InsertAsc(_, _)
InsertAsc(sorted, x) ==
  IF sorted = <<>> THEN <<x>>
  ELSE IF SimGT(sorted[1].similarity, x.similarity)
       THEN <<x>> \o sorted
       ELSE <<sorted[1]>> \o InsertAsc(Tail(sorted), x)

\* Array.prototype.sort((a, b) => b.similarity - a.similarity): stable
RECURSIVE InsertDesc(_, _)
InsertDesc(sorted, x) ==
  IF sorted = <<>> THEN <<x>>
  ELSE IF SimGT(x.similarity, sorted[1].similarity)
       THEN <<x>> \o sorted
       ELSE <<sorted[1]>> \o InsertDesc(Tail(sorted), x)

RECURSIVE SortDesc(_)
SortDesc(seq) ==
  IF seq = <<>> THEN <<>>
  ELSE InsertDesc(SortDesc(SubSeq(seq, 1, Len(seq) - 1)), seq[Len(seq)])

SortedAndSlicedUnsorted(results, limit) == Take(results, limit)

\* Array.from(results.values()).sort(...).slice(0, limit)
SortedAndSliced(results, limit) == Take(SortDesc(results), limit)

\* the request bodies the model submits
QueryGlu == [isString |-> TRUE, text |-> Lit(<<"g", "l", "u">>)]

QueryB == [isString |-> TRUE, text |-> Lit(<<"b">>)]

QueryEl == [isString |-> TRUE, text |-> Lit(<<"E", "l">>)]

QueryEmpty == [isString |-> TRUE, text |-> <<>>]

QueryNumber == [isString |-> FALSE, text |-> <<>>]

NoFilters ==
  [sourceTypes |-> {}, subjectId |-> NULL, lessonId |-> NULL,
   programId |-> NULL, minSimilarity |-> None]

Body(query, limit, filters, includeAnswer) ==
  [query |-> query, limit |-> limit, filters |-> filters,
   includeAnswer |-> includeAnswer]

\* the source types the indexer writes (scripts/index-knowledge.ts)
SourceTypes == {"transcript", "slide", "cornell", "summary"}

Bodies ==
  {Body(q, l, NoFilters, TRUE) :
     q \in {QueryGlu, QueryB}, l \in {None, Some(0), Some(1), Some(2)}}
  \cup {Body(QueryEl, l, NoFilters, TRUE) : l \in {None, Some(2)}}
  \cup {Body(QueryB, Some(2),
             [NoFilters EXCEPT !.sourceTypes = {"slide"},
                               !.minSimilarity = Some(DEFAULT_MIN_SIMILARITY)],
             FALSE),
        Body(QueryGlu, None, [NoFilters EXCEPT !.sourceTypes = {"video"}],
             FALSE),
        Body(QueryGlu, None, [NoFilters EXCEPT !.subjectId = "sub1"], FALSE),
        Body(QueryEl, None,
             [NoFilters EXCEPT !.lessonId = "l2", !.programId = "p1"], FALSE),
        Body(QueryEmpty, None, NoFilters, TRUE),
        Body(QueryNumber, None, NoFilters, TRUE)}

(***************************************************************************)
(* Context builder (lib/knowledge.ts, buildContext)                        *)
(***************************************************************************)
Digits == <<"0", "1", "2", "3", "4", "5", "6", "7", "8", "9">>

\* String(n) of a natural number
RECURSIVE NumberToString(_)
NumberToString(n) ==
  IF n < 10 THEN <<Run(Digits[n + 1], 1)>>
  ELSE Cat(NumberToString(n \div 10), <<Run(Digits[(n % 10) + 1], 1)>>)

\* the characters of the source types and ids of the model
SpelledTranscript == Lit(<<"t", "r", "a", "n", "s", "c", "r", "i", "p", "t">>)

SpelledSlide == Lit(<<"s", "l", "i", "d", "e">>)

SpelledT1 == Lit(<<"t", "1">>)

SpelledS1 == Lit(<<"s", "1">>)

Spelled(name) ==
  CASE name = "transcript" -> SpelledTranscript
    [] name = "slide" -> SpelledSlide
    [] name = "t1" -> SpelledT1
    [] name = "s1" -> SpelledS1
    [] OTHER -> <<Run("?", 1)>>

\* (similarity * 100).toFixed(0): the nearest integer, a tie going away from
\* zero; "NaN" for NaN
NaNText == Lit(<<"N", "a", "N">>)

\* the greatest k in lo..(hi - 1) with k - 1/2 <= 100 * a / sqrt(q2)
RECURSIVE NearestFrom(_, _, _, _)
NearestFrom(lo, hi, a, q2) ==
  IF hi - lo <= 1 THEN lo
  ELSE LET mid == (lo + hi) \div 2
       IN IF (2 * mid - 1) * (2 * mid - 1) * q2 <= 200 * a * 200 * a
          THEN NearestFrom(mid, hi, a, q2)
          ELSE NearestFrom(lo, mid, a, q2)

ToFixed0(similarity) ==
  IF similarity.q2 = 0 THEN NaNText
  ELSE LET a == IF similarity.p < 0 THEN 0 - similarity.p ELSE similarity.p
       IN Cat(IF similarity.p < 0 THEN <<Run("-", 1)>> ELSE <<>>,
              NumberToString(NearestFrom(0, 101, a, similarity.q2)))

\* a variant that labels a result by its title alone
SourceTitleOnly(r) == IF r.title # None THEN r.title[1] ELSE <<>>

\* const source = r.title || `${r.sourceType}/${r.sourceId}`
Source(r) ==
  IF r.title # None /\ r.title[1] # <<>> THEN r.title[1]
  ELSE Cat(Cat(Spelled(r.sourceType), <<Run("/", 1)>>), Spelled(r.sourceId))

\* the fixed parts of `[${i + 1}] (${source}, relevancia: ${...}%)\n${...}`
EntryOpen == Lit(<<"[">>)

EntryAfterIndex == Lit(<<"]", " ", "(">>)

EntryAfterSource ==
  Lit(<<",", " ", "r", "e", "l", "e", "v", "a", "n", "c", "i", "a", ":", " ">>)

EntryAfterPercent == Lit(<<"%", ")", "\n">>)

ContextEntry(r, i) ==
  Cat(Cat(Cat(Cat(Cat(Cat(Cat(EntryOpen, NumberToString(i + 1)),
                          EntryAfterIndex),
                      Source(r)),
                  EntryAfterSource),
              ToFixed0(r.similarity)),
          EntryAfterPercent),
      r.content)

ContextSeparator == Lit(<<"\n", "\n", "-", "-", "-", "\n", "\n">>)

\* Array.prototype.join
RECURSIVE Join(_, _)
Join(parts, separator) ==
  IF parts = <<>> THEN <<>>
  ELSE IF Len(parts) = 1 THEN parts[1]
  ELSE Cat(Cat(parts[1], separator), Join(Tail(parts), separator))

buildContext(results) ==
  Join([k \in 1..Len(results) |-> ContextEntry(results[k], k - 1)],
       ContextSeparator)

(***************************************************************************)
(* Query API (app/api/knowledge/search/route.ts, POST) around              *)
(* searchKnowledge                                                         *)
(***************************************************************************)
\* the JSON the route answers with
ContentPreview(content) ==
  IF StrLen(content) > ROUTE_CONTENT_CHARS THEN "cut" ELSE "whole"

OkResponse(ret, answer) ==
  [status |-> 200,
   results |-> [k \in 1..Len(ret) |->
                  [id |-> ret[k].id, similarity |-> ret[k].similarity,
                   content |-> ContentPreview(ret[k].content)]],
   answer |-> answer, totalResults |-> Len(ret)]

ErrorResponse(status) ==
  [status |-> status, results |-> <<>>, answer |-> NULL, totalResults |-> 0]

\* searchKnowledge returns; the route builds the context and goes on to the
\* answer, or responds
Return(r, results) ==
  LET ret == SortedAndSliced(results, r.limit)
  IN IF r.body.includeAnswer /\ Len(ret) > 0
     THEN [r EXCEPT !.results = results, !.ret = ret, !.pc = "answer",
                    !.context = buildContext(ret)]
     ELSE [r EXCEPT !.results = results, !.ret = ret, !.pc = "responded",
                    !.response = OkResponse(ret, NULL)]

\* a variant of the retriever that consumes the rows it has read
StoreReadConsuming == store' = {} /\ UNCHANGED <<calls, del, chunker, cosine>>

\* findMany and SELECT only: a step of a request writes nothing but the
\* request's own locals
StoreRead == UNCHANGED <<store, calls, del, chunker, cosine>>

\* POST: the body is parsed and checked, the options are taken
Post(q, body) ==
  /\ req[q].pc = "idle"
  /\ req' = [req EXCEPT ![q] =
       IF body.query.text = <<>> \/ ~body.query.isString
       THEN [IdleReq EXCEPT !.body = body, !.pc = "responded",
                            !.response = ErrorResponse(400)]
       ELSE [IdleReq EXCEPT
               !.body = body, !.pc = "text",
               !.limit = IF body.limit = None THEN DEFAULT_LIMIT
                         ELSE body.limit[1],
               !.where = WhereOf(body.filters),
               !.minSimilarity =
                 IF body.filters.minSimilarity = None
                 THEN ROUTE_MIN_SIMILARITY
                 ELSE body.filters.minSimilarity[1]]]
  /\ StoreRead

\* req.json() rejects
PostJsonThrow(q) ==
  /\ req[q].pc = "idle"
  /\ req' = [req EXCEPT ![q] =
       [IdleReq EXCEPT !.pc = "responded", !.failed = {"json"},
                       !.response = ErrorResponse(500)]]
  /\ StoreRead

\* a variant that enters the semantic phase whatever the lexical phase found
TextSearchThenSemantic(q) ==
  /\ req[q].pc = "text"
  /\ LET query == req[q].body.query.text
         matching == {Selected(r) : r \in
                        {x \in store : Satisfies(x, req[q].where)
                                       /\ TextMatch(x, query)}}
     IN \E order \in Perms(matching) :
          LET textMatches == Take(order, req[q].limit * 2)
              results == AddTextMatches(<<>>, textMatches, query)
          IN req' = [req EXCEPT ![q] =
               [@ EXCEPT !.textMatches = results, !.accessed = TRUE,
                         !.results = results, !.pc = "embed"]]
  /\ StoreRead

\* 1. TEXT SEARCH
TextSearch(q) ==
  /\ req[q].pc = "text"
  /\ LET query == req[q].body.query.text
         matching == {Selected(r) : r \in
                        {x \in store : Satisfies(x, req[q].where)
                                       /\ TextMatch(x, query)}}
     IN \E order \in Perms(matching) :
          LET textMatches == Take(order, req[q].limit * 2)
              results == AddTextMatches(<<>>, textMatches, query)
              r == [req[q] EXCEPT !.textMatches = results, !.accessed = TRUE]
          IN req' = [req EXCEPT ![q] =
               IF Len(results) < req[q].limit
               THEN [r EXCEPT !.results = results, !.pc = "embed"]
               ELSE Return(r, results)]
  /\ StoreRead

\* the first findMany rejects: nothing in searchKnowledge catches it
TextSearchThrow(q) ==
  /\ req[q].pc = "text"
  /\ req' = [req EXCEPT ![q] =
       [@ EXCEPT !.pc = "responded", !.failed = {"text"}, !.accessed = TRUE,
                 !.response = ErrorResponse(500)]]
  /\ StoreRead

\* 2. SEMANTIC SEARCH: const queryEmbedding = await generateEmbedding(query)
SemanticEmbed(q, v) ==
  /\ req[q].pc = "embed"
  /\ req' = [req EXCEPT ![q] = [@ EXCEPT !.queryEmbedding = v, !.pc = "fetch"]]
  /\ StoreRead

\* the chunks to compare, and the early exit when none is new
SemanticFetch(q) ==
  /\ req[q].pc = "fetch"
  /\ LET all == {Selected(r) : r \in
                   {x \in store : Satisfies(x, req[q].where)}}
     IN \E order \in Perms(all) :
          LET chunks == Take(order, SEMANTIC_TAKE)
              chunkIds == {chunks[k].id : k \in
                             {j \in 1..Len(chunks) :
                                ~Has(req[q].results, chunks[j].id)}}
          IN req' = [req EXCEPT ![q] =
               IF chunkIds = {}
               THEN Return(req[q], req[q].results)
               ELSE [req[q] EXCEPT !.chunks = chunks, !.pc = "vectors"]]
  /\ StoreRead

\* SELECT id, embedding ... WHERE id = ANY($1) AND embedding IS NOT NULL
SemanticVectors(q) ==
  /\ req[q].pc = "vectors"
  /\ LET chunkIds == {req[q].chunks[k].id : k \in
                        {j \in 1..Len(req[q].chunks) :
                           ~Has(req[q].results, req[q].chunks[j].id)}}
         embeddings == {[id |-> r.id, embedding |-> r.embedding] : r \in
                          {x \in store : x.id \in chunkIds
                                         /\ x.embedding # NullVector}}
         results == AddSemantic(req[q].results, req[q].chunks, embeddings,
                                req[q].queryEmbedding, req[q].minSimilarity)
     IN req' = [req EXCEPT ![q] =
          Return([req[q] EXCEPT !.chunks = <<>>], results)]
  /\ StoreRead

\* a variant of the catch block that lets the error out of searchKnowledge
SemanticCatchRethrow(q) ==
  /\ req[q].pc \in {"embed", "fetch", "vectors"}
  /\ req' = [req EXCEPT ![q] =
       [@ EXCEPT !.pc = "responded", !.failed = {"semantic"},
                 !.chunks = <<>>, !.response = ErrorResponse(500)]]
  /\ StoreRead

\* catch (e): generateEmbedding, the second findMany or the raw query rejects
SemanticCatch(q) ==
  /\ req[q].pc \in {"embed", "fetch", "vectors"}
  /\ req' = [req EXCEPT ![q] =
       Return([req[q] EXCEPT !.failed = {"semantic"}, !.chunks = <<>>],
              req[q].results)]
  /\ StoreRead

\* the webhook answers: ok with an answer, or not ok
Answer(q, ok) ==
  /\ req[q].pc = "answer"
  /\ req' = [req EXCEPT ![q] =
       [@ EXCEPT !.pc = "responded",
                 !.response =
                   OkResponse(req[q].ret, IF ok THEN "answer" ELSE NULL)]]
  /\ StoreRead

\* fetch or aiResponse.json() rejects: the route's catch answers 500
AnswerThrow(q) ==
  /\ req[q].pc = "answer"
  /\ req' = [req EXCEPT ![q] =
       [@ EXCEPT !.pc = "responded", !.failed = @ \cup {"answer"},
                 !.response = ErrorResponse(500)]]
  /\ StoreRead

\* the steps of a request after its body was read
ServeStep(q) ==
  \/ PostJsonThrow(q)
  \/ TextSearch(q)
  \/ TextSearchThrow(q)
  \/ \E v \in QueryVectors : SemanticEmbed(q, v)
  \/ SemanticFetch(q)
  \/ SemanticVectors(q)
  \/ SemanticCatch(q)
  \/ \E ok \in BOOLEAN : Answer(q, ok)
  \/ AnswerThrow(q)

SearchStep(q) ==
  \/ \E body \in Bodies : Post(q, body)
  \/ ServeStep(q)

\* what one earlier indexContent call, run alone, has left under its key:
\* nothing, or the rows of its first n chunks, each with its vector, the last
\* one without it when the call stopped at the UPDATE
Artifacts(c, m) ==
  {{}} \cup
  UNION {
    UNION {
      {{[NewRow(NewId(c, k), chunkText(content)[k], m)
           EXCEPT !.embedding = e[k]] : k \in 1..n} :
         e \in {f \in [1..n -> Vectors \cup {NullVector}] :
                  \A k \in 1..(n - 1) : f[k] # NullVector}} :
      n \in 1..Len(chunkText(content))} :
    content \in Contents}

\* the table as earlier runs of the indexer left it
PriorStores ==
  {a \cup b : a \in Artifacts(1, MetaTranscript),
              b \in Artifacts(2, MetaSlide)}

InitSearch ==
  /\ store \in PriorStores
  /\ calls = [c \in Calls |-> IdleCall]
  /\ del = [n |-> 0, sourceType |-> NULL, sourceId |-> NULL, count |-> 0]
  /\ req = [q \in Callers |-> IdleReq]
  /\ chunker = IdleChunker
  /\ cosine = IdleCosine

OneCaller == "caller1"

\* a request of one caller, served over a table that only
\* deleteIndexedContent changes
NextSearch ==
  \/ SearchStep(OneCaller)
  \/ \E k \in Keys : deleteIndexedContent(k[1], k[2])

SpecSearch == InitSearch /\ [][NextSearch]_vars

(***************************************************************************)
(* Concurrent callers of the query API over a table nobody writes          *)
(***************************************************************************)
\* tables with one chunk of a titled transcript and one of an untitled slide
SharedStores ==
  {a \cup b : a \in {x \in Artifacts(1, MetaTranscript) : Cardinality(x) = 1},
              b \in {x \in Artifacts(2, MetaSlide) : Cardinality(x) = 1}}

SharedBodies ==
  {Body(QueryEl, None, NoFilters, TRUE),
   Body(QueryGlu, Some(1), NoFilters, FALSE)}

InitShared ==
  /\ store \in SharedStores
  /\ calls = [c \in Calls |-> IdleCall]
  /\ del = [n |-> 0, sourceType |-> NULL, sourceId |-> NULL, count |-> 0]
  /\ req = [q \in Callers |-> IdleReq]
  /\ chunker = IdleChunker
  /\ cosine = IdleCosine

\* the steps of all callers, in any interleaving
NextShared ==
  \/ \E q \in Callers, body \in SharedBodies : Post(q, body)
  \/ \E q \in Callers : ServeStep(q)

SpecShared == InitShared /\ [][NextShared]_vars

\* what searchKnowledge can return when it runs alone over the table st:
\* every order the two findMany calls may answer in, every vector the
\* provider may give the query, and the failure of the semantic phase
SemanticAlone(st, where, results, queryEmbedding, minSimilarity) ==
  LET all == {Selected(r) : r \in {x \in st : Satisfies(x, where)}}
  IN {LET chunks == Take(order, SEMANTIC_TAKE)
          chunkIds == {chunks[k].id : k \in
                         {j \in 1..Len(chunks) : ~Has(results, chunks[j].id)}}
          embeddings == {[id |-> r.id, embedding |-> r.embedding] : r \in
                           {x \in st : x.id \in chunkIds
                                       /\ x.embedding # NullVector}}
      IN IF chunkIds = {} THEN results
         ELSE AddSemantic(results, chunks, embeddings, queryEmbedding,
                          minSimilarity) :
      order \in Perms(all)}

searchKnowledge(st, query, where, limit, minSimilarity) ==
  LET matching == {Selected(r) : r \in
                     {x \in st : Satisfies(x, where) /\ TextMatch(x, query)}}
  IN UNION {
       LET results == AddTextMatches(<<>>, Take(order, limit * 2), query)
       IN IF Len(results) < limit
          THEN {SortedAndSliced(x, limit) :
                  x \in {results} \cup
                        UNION {SemanticAlone(st, where, results, v,
                                             minSimilarity) :
                                 v \in QueryVectors}}
          ELSE {SortedAndSliced(results, limit)} :
       order \in Perms(matching)}

(***************************************************************************)
(* Calls of the chunker on texts put together from a few pieces            *)
(***************************************************************************)
MaxPieces == 6

\* a word of one token, a word of 53 tokens, a full stop, a space, a newline
Pieces ==
  {Rep("a", 3), Rep("b", 210), Lit(<<".">>), Space, Lit(<<"\n">>)}

RECURSIVE TextsOf(_)
TextsOf(n) ==
  IF n = 0 THEN {<<>>}
  ELSE LET shorter == TextsOf(n - 1)
       IN shorter \cup {Cat(t, p) : t \in shorter, p \in Pieces}

Texts == TextsOf(MaxPieces)

MaxTokensValues == {1, 54, MAX_CHUNK_TOKENS}

InitChunk ==
  /\ store = {}
  /\ calls = [c \in Calls |-> IdleCall]
  /\ del = [n |-> 0, sourceType |-> NULL, sourceId |-> NULL, count |-> 0]
  /\ req = [q \in Callers |-> IdleReq]
  /\ chunker \in {[IdleChunker EXCEPT !.text = t, !.maxTokens = m] :
                    t \in Texts, m \in MaxTokensValues}
  /\ cosine = IdleCosine

\* chunkText(text, maxTokens) is called and returns
ChunkTextCall ==
  /\ chunker.pc = "idle"
  /\ chunker' = [chunker EXCEPT
                   !.pc = "returned",
                   !.chunks = chunkTextMax(chunker.text, chunker.maxTokens)]
  /\ UNCHANGED <<store, calls, del, req, cosine>>

SpecChunk == InitChunk /\ [][ChunkTextCall]_vars

(***************************************************************************)
(* Calls of cosineSimilarity on two integer vectors of one length          *)
(***************************************************************************)
MaxDim == 2

MaxAbs == 3

\* the vectors of n components, each between -MaxAbs and MaxAbs
VectorsOfDim(n) == [1..n -> (0 - MaxAbs)..MaxAbs]

Embeddings == UNION {VectorsOfDim(n) : n \in 1..MaxDim}

\* -v
Neg(v) == [k \in 1..Len(v) |-> 0 - v[k]]

InitCosine ==
  /\ store = {}
  /\ calls = [c \in Calls |-> IdleCall]
  /\ del = [n |-> 0, sourceType |-> NULL, sourceId |-> NULL, count |-> 0]
  /\ req = [q \in Callers |-> IdleReq]
  /\ chunker = IdleChunker
  /\ cosine \in {[IdleCosine EXCEPT !.a = p[1], !.b = p[2]] :
                   p \in {x \in Embeddings \X Embeddings :
                            Len(x[1]) = Len(x[2])}}

\* cosineSimilarity(a, b) is called and returns
CosineCall ==
  /\ cosine.pc = "idle"
  /\ cosine' = [cosine EXCEPT !.pc = "returned",
                              !.ret = cosineSimilarity(cosine.a, cosine.b)]
  /\ UNCHANGED <<store, calls, del, req, chunker>>

SpecCosine == InitCosine /\ [][CosineCall]_vars

(***************************************************************************)
(* Properties                                                              *)
(***************************************************************************)
IdsOf(c) == {r.id : r \in {x \in store : x.id[1] = c}}

SameArtifact(c, d) == KeyOf(calls[c].meta) = KeyOf(calls[d].meta)

\* C1: an index call made while a chunk with its natural key is stored
\* returns the empty sequence of ids and writes nothing, whatever its content;
\* no row of that call is in the store.
C1_AlreadyIndexedIsNoOp ==
  [][\A c \in Calls :
       (/\ calls[c].pc = "idle"
        /\ calls'[c].pc # "idle"
        /\ calls'[c].err # "findFirst"
        /\ RowsOf(calls'[c].meta.sourceType, calls'[c].meta.sourceId) # {})
       => /\ calls'[c].pc = "returned"
          /\ calls'[c].ret = <<>>
          /\ store' = store
          /\ \A r \in store' : r.id[1] # c]_vars

\* C1 witness: the second of two calls with identical arguments has returned
\* the empty sequence while the rows of the first are stored.
C1_Witness ==
  \E c, d \in Calls :
    /\ c < d
    /\ calls[c].content = calls[d].content
    /\ calls[c].meta = calls[d].meta
    /\ calls[c].pc = "returned" /\ calls[c].ret # <<>>
    /\ IdsOf(c) # {}
    /\ calls[d].pc = "returned" /\ calls[d].existing /\ calls[d].ret = <<>>
    /\ IdsOf(d) = {}

\* C3: with index and delete calls run one at a time, all rows stored under
\* one natural key were created by one index call.
C3_OneCallPerKey ==
  \A r1, r2 \in store :
    (r1.sourceType = r2.sourceType /\ r1.sourceId = r2.sourceId)
      => r1.id[1] = r2.id[1]

\* C3 witness: a call failed partway and left a row, and a later call for
\* the same key found it and returned empty.
C3_Witness ==
  \E c, d \in Calls :
    /\ c < d /\ SameArtifact(c, d)
    /\ calls[c].pc = "thrown" /\ calls[c].i = 2
    /\ IdsOf(c) # {}
    /\ calls[d].pc = "returned" /\ calls[d].existing
    /\ IdsOf(d) = {}

\* C4: rows of two calls stand under one natural key, no delete of the key
\* having come between, only when each of the two passed the existence check
\* before the other had written a row.
C4_DuplicatesOnlyByRace ==
  \A c, d \in Calls :
    (/\ c # d /\ SameArtifact(c, d)
     /\ IdsOf(c) # {} /\ IdsOf(d) # {}
     /\ ~calls[c].delSince /\ ~calls[d].delSince)
    => (c \notin calls[d].wroteBefore /\ d \notin calls[c].wroteBefore)

\* C4 witness: two calls for one key have both returned all their ids, and
\* both sets of rows are stored.
C4_Witness ==
  \E c, d \in Calls :
    /\ c # d /\ SameArtifact(c, d)
    /\ calls[c].pc = "returned" /\ calls[d].pc = "returned"
    /\ Len(calls[c].ret) = 2 /\ Len(calls[d].ret) >= 1
    /\ Cardinality(IdsOf(c)) = 2
    /\ Cardinality(IdsOf(d)) = Len(calls[d].ret)
    /\ del.n = 0

LoopErrors == {"embed", "create", "update"}

\* C7 (as claimed): when an index call has ended, all chunks of its artifact
\* are stored or none is.
C7_AtomicPerArtifact ==
  \A c \in Calls :
    (Ended(c) /\ calls[c].chunks # <<>>)
      => Cardinality(IdsOf(c)) \in {0, Len(calls[c].chunks)}

\* C8 (as claimed): a failure on one chunk does not abort the call; the
\* chunks after it are stored.
C8_FailureDoesNotAbort ==
  \A c \in Calls :
    (Ended(c) /\ calls[c].err \in LoopErrors /\ ~calls[c].delSince)
      => \A j \in (calls[c].i + 1)..Len(calls[c].chunks) :
           NewId(c, j) \in IdsOf(c)

SearchReturned(q) ==
  \/ req[q].pc = "answer"
  \/ /\ req[q].pc = "responded"
     /\ req[q].failed \subseteq {"semantic", "answer"}
     /\ req[q].response.status # 400

Range(seq) == {seq[k] : k \in 1..Len(seq)}

\* C2: search returns at most limit results, each with a similarity greater
\* than or equal to that of the result after it.
C2_AtMostLimitNonIncreasing ==
  \A q \in Callers :
    /\ Len(req[q].ret) <= req[q].limit
    /\ \A k \in 1..(Len(req[q].ret) - 1) :
         SimGE(req[q].ret[k].similarity, req[q].ret[k + 1].similarity)

\* C2 witness: a search with limit 2 found three chunks and returned two of
\* them, the first with the strictly greater similarity.
C2_Witness ==
  \E q \in Callers :
    /\ SearchReturned(q)
    /\ req[q].limit = 2
    /\ Len(req[q].results) = 3
    /\ Len(req[q].ret) = 2
    /\ SimGT(req[q].ret[1].similarity, req[q].ret[2].similarity)

\* C5: when the embedding call or a fetch of the semantic phase fails,
\* search raises no error and returns the lexical results: the limit best of
\* them, and nothing else.
C5_SemanticFailureKeepsLexical ==
  \A q \in Callers :
    ("semantic" \in req[q].failed /\ req[q].pc \in {"answer", "responded"})
      => /\ "answer" \notin req[q].failed => req[q].response.status # 500
         /\ "answer" \notin req[q].failed /\ req[q].pc = "responded"
              => /\ req[q].response.status = 200
                 /\ req[q].response.totalResults = Len(req[q].ret)
         /\ Range(req[q].ret) \subseteq Range(req[q].textMatches)
         /\ Len(req[q].ret) =
              IF Len(req[q].textMatches) < req[q].limit
              THEN Len(req[q].textMatches) ELSE req[q].limit
         /\ \A x \in Range(req[q].textMatches) \ Range(req[q].ret) :
              \A y \in Range(req[q].ret) : SimGE(y.similarity, x.similarity)

\* C5 witness: the semantic phase failed, the request was answered 200 with
\* a lexical hit, and a stored chunk with a vector is not among the results.
C5_Witness ==
  \E q \in Callers :
    /\ req[q].pc = "responded"
    /\ req[q].failed = {"semantic"}
    /\ req[q].response.status = 200
    /\ Len(req[q].ret) >= 1
    /\ \E r \in store :
         /\ r.embedding # NullVector
         /\ Satisfies(r, req[q].where)
         /\ ~Has(req[q].ret, r.id)

\* C6 (as claimed): a request with a non-empty string query is never
\* answered with an error.
C6_WellFormedNeverError ==
  \A q \in Callers :
    (/\ req[q].pc = "responded"
     /\ req[q].body.query.isString
     /\ req[q].body.query.text # <<>>)
      => req[q].response.status = 200

\* C10: a lexical result has similarity 0.95 when its title contains the
\* query, case ignored, and 0.85 otherwise, also when it has no title.
C10_LexicalScores ==
  \A q \in Callers :
    \A x \in Range(req[q].textMatches) :
      x.similarity =
        IF /\ x.title # None
           /\ ContainsInsensitive(x.title[1], req[q].body.query.text)
        THEN Sim(95, 10000)
        ELSE Sim(85, 10000)

\* C10 witness: the lexical phase has scored a chunk whose title holds the
\* query in another case and a chunk without a title.
C10_Witness ==
  \E q \in Callers :
    /\ req[q].body.query = QueryGlu
    /\ \E x, y \in Range(req[q].textMatches) :
         /\ x.title = Some(TitleGlu) /\ x.similarity = Sim(95, 10000)
         /\ y.title = None /\ y.similarity = Sim(85, 10000)

\* the position of the chunk with this id in a result list, 0 when absent
PositionOf(ret, id) ==
  IF \E k \in 1..Len(ret) : ret[k].id = id
  THEN CHOOSE k \in 1..Len(ret) : ret[k].id = id
  ELSE 0

\* C11: when chunk A's title contains the query as it is written, chunk B is
\* no lexical hit and has a cosine similarity to the query below 0.95, and
\* both satisfy the filters, then a result list that holds B holds A too, at
\* an earlier position.
C11_TitleHitAboveSemantic ==
  \A q \in Callers :
    SearchReturned(q) =>
      \A a, b \in store :
        (/\ Satisfies(a, req[q].where) /\ Satisfies(b, req[q].where)
         /\ a.title # None /\ includes(a.title[1], req[q].body.query.text)
         /\ ~TextMatch(b, req[q].body.query.text)
         /\ b.embedding # NullVector
         /\ req[q].queryEmbedding # NullVector
         /\ SimGT(Sim(95, 10000),
                  cosineSimilarity(req[q].queryEmbedding, b.embedding))
         /\ PositionOf(req[q].ret, b.id) > 0)
        => /\ PositionOf(req[q].ret, a.id) > 0
           /\ PositionOf(req[q].ret, a.id) < PositionOf(req[q].ret, b.id)

\* C11 witness: a result list holds a chunk found by its title and, after it,
\* a chunk found by its vector alone with a similarity between 0.85 and 0.95.
C11_Witness ==
  \E q \in Callers :
    /\ SearchReturned(q)
    /\ \E a, b \in store :
         /\ a.title # None /\ includes(a.title[1], req[q].body.query.text)
         /\ ~TextMatch(b, req[q].body.query.text)
         /\ PositionOf(req[q].ret, a.id) = 1
         /\ PositionOf(req[q].ret, b.id) = 2
         /\ SimGT(req[q].ret[2].similarity, Sim(85, 10000))
         /\ SimGT(Sim(95, 10000), req[q].ret[2].similarity)

\* C12: a result list holds each chunk id at most once, and a chunk matched
\* in the lexical phase keeps its lexical score, 0.95 or 0.85, whatever its
\* vector.
C12_OncePerIdLexicalScoreKept ==
  \A q \in Callers :
    SearchReturned(q) =>
      /\ \A i, j \in 1..Len(req[q].ret) :
           req[q].ret[i].id = req[q].ret[j].id => i = j
      /\ \A x \in Range(req[q].ret), t \in Range(req[q].textMatches) :
           x.id = t.id
             => /\ x.similarity = t.similarity
                /\ t.similarity \in {Sim(95, 10000), Sim(85, 10000)}

\* C12 witness: the semantic phase ran to its end and added a chunk, and the
\* list also holds a lexical hit whose vector has another similarity to the
\* query, one that passes the threshold.
C12_Witness ==
  \E q \in Callers :
    /\ SearchReturned(q)
    /\ req[q].failed = {}
    /\ \E y \in Range(req[q].ret) :
         \A t \in Range(req[q].textMatches) : t.id # y.id
    /\ \E x \in Range(req[q].ret), r \in store :
         /\ r.id = x.id
         /\ \E t \in Range(req[q].textMatches) : t.id = x.id
         /\ r.embedding # NullVector
         /\ req[q].queryEmbedding # NullVector
         /\ SimGE(cosineSimilarity(req[q].queryEmbedding, r.embedding),
                  req[q].minSimilarity)
         /\ SimGT(cosineSimilarity(req[q].queryEmbedding, r.embedding),
                  x.similarity)

\* s begins with p
StartsWith(s, p) ==
  \/ p = <<>>
  \/ /\ Len(p) <= Len(s)
     /\ \A k \in 1..(Len(p) - 1) : s[k] = p[k]
     /\ s[Len(p)].c = p[Len(p)].c
     /\ s[Len(p)].n >= p[Len(p)].n

\* the last k of the words, with single spaces between them
LastWords(words, k) ==
  Join(SubSeq(words, Len(words) - k + 1, Len(words)), Space)

\* C13: for every text, the empty one and those of white space alone
\* included, and every maxTokens, no chunk that chunkText returns is empty
\* or made of white space alone.
C13_NoEmptyChunk ==
  chunker.pc = "returned"
    => \A k \in 1..Len(chunker.chunks) : trim(chunker.chunks[k]) # <<>>

\* C13 witness: chunkText has returned no chunk for a text of white space
\* alone.
C13_Witness ==
  /\ chunker.pc = "returned"
  /\ chunker.text # <<>>
  /\ trim(chunker.text) = <<>>
  /\ chunker.chunks = <<>>

\* C14: a sentence whose own estimate exceeds maxTokens is whole, the white
\* space around it aside, inside a chunk; a text that is just such a
\* sentence, with no white space around it, yields that one chunk.
C14_LongSentenceKeptWhole ==
  chunker.pc = "returned"
    => LET sentences == SplitSentences(chunker.text)
       IN /\ \A k \in 1..Len(sentences) :
               (/\ estimateTokens(sentences[k]) > chunker.maxTokens
                /\ trim(sentences[k]) # <<>>)
               => \E j \in 1..Len(chunker.chunks) :
                    includes(chunker.chunks[j], trim(sentences[k]))
          /\ (/\ Len(sentences) = 1
              /\ chunker.text # <<>>
              /\ trim(chunker.text) = chunker.text
              /\ estimateTokens(chunker.text) > chunker.maxTokens)
             => chunker.chunks = <<chunker.text>>

\* C14 witness: the first of two sentences is longer than maxTokens = 54
\* and is the first of two chunks, unsplit.
C14_Witness ==
  /\ chunker.pc = "returned"
  /\ chunker.maxTokens = 54
  /\ Len(SplitSentences(chunker.text)) = 2
  /\ estimateTokens(SplitSentences(chunker.text)[1]) > 54
  /\ Len(chunker.chunks) = 2
  /\ chunker.chunks[1] = SplitSentences(chunker.text)[1]

\* C15: when chunkText returns more than one chunk, every chunk after the
\* first begins with trailing words of the chunk before it, at least one,
\* then a space and a later sentence of the text (white space at the two
\* ends aside, as chunks are trimmed).
C15_OverlapFromTail ==
  chunker.pc = "returned"
    => \A i \in 1..(Len(chunker.chunks) - 1) :
         LET words == SplitSpaces(chunker.chunks[i])
         IN \E k \in 1..Len(words) :
              /\ trim(LastWords(words, k)) # <<>>
              /\ \E j \in 2..Len(SplitSentences(chunker.text)) :
                   StartsWith(
                     chunker.chunks[i + 1],
                     trim(Cat(Cat(LastWords(words, k), Space),
                              SplitSentences(chunker.text)[j])))

\* C15 witness: the second chunk begins with the last word of the first,
\* a word of more than 50 tokens, and not with the first chunk as a whole.
C15_Witness ==
  /\ chunker.pc = "returned"
  /\ Len(chunker.chunks) = 2
  /\ ~StartsWith(chunker.chunks[2], chunker.chunks[1])
  /\ LET words == SplitSpaces(chunker.chunks[1])
     IN /\ Len(words) = 2
        /\ estimateTokens(words[2]) > CHUNK_OVERLAP
        /\ StartsWith(chunker.chunks[2], Cat(words[2], Space))

\* C16: with no index call in progress, deleteIndexedContent removes the
\* rows of its key and no other row and returns their number; an index call
\* that finds no row under its key goes on to store its chunks, and the
\* first such call after a delete of the key, when it returns, has stored
\* one row for each chunk.
C16_DeleteMakesUnindexed ==
  [][/\ del'.n # del.n
          => /\ store' = {r \in store :
                            KeyOf(r) # <<del'.sourceType, del'.sourceId>>}
             /\ del'.count =
                  Cardinality({r \in store :
                                 KeyOf(r) = <<del'.sourceType, del'.sourceId>>})
     /\ \A c \in Calls :
          (/\ calls[c].pc = "idle" /\ calls'[c].pc # "idle"
           /\ calls'[c].err # "findFirst"
           /\ RowsOf(calls'[c].meta.sourceType, calls'[c].meta.sourceId) = {})
          => /\ ~calls'[c].existing
             /\ calls'[c].pc = "embed"
             /\ calls'[c].chunks = chunkText(calls'[c].content)
     /\ \A c \in Calls :
          (/\ del'.n > 0
           /\ KeyOf(calls'[c].meta) = <<del'.sourceType, del'.sourceId>>
           /\ ~calls'[c].delSince
           /\ ~calls'[c].existing
           /\ calls'[c].pc = "returned")
          => /\ Len(calls'[c].ret) = Len(calls'[c].chunks)
             /\ Len(calls'[c].ret) > 0
             /\ {r.id : r \in {x \in store' : x.id[1] = c}}
                  = Range(calls'[c].ret)]_vars

\* C16 witness: a call stored two chunks, a delete of their key removed and
\* counted them, and a later call for the key stored its own chunks, which
\* are the only rows under the key.
C16_Witness ==
  \E c, d \in Calls :
    /\ c < d /\ SameArtifact(c, d)
    /\ calls[c].pc = "returned" /\ Len(calls[c].ret) = 2
    /\ calls[c].delSince /\ del.count = 2
    /\ IdsOf(c) = {}
    /\ calls[d].pc = "returned" /\ ~calls[d].delSince
    /\ calls[d].ret # <<>>
    /\ IdsOf(d) = Range(calls[d].ret)

\* what a request has got back from searchKnowledge is what searchKnowledge
\* can return when it runs alone over the table
ReturnedAsAlone(q) ==
  SearchReturned(q)
    => req[q].ret \in searchKnowledge(store, req[q].body.query.text,
                                       req[q].where, req[q].limit,
                                       req[q].minSimilarity)

\* C17: whatever the requests in progress at the same time, no step of a
\* search changes the stored chunks or their vectors, and each search
\* returns a list it can return running alone over that table.
C17_SearchReadOnly ==
  /\ [][store' = store]_vars
  /\ [](\A q \in Callers : ReturnedAsAlone(q))

\* C17 witness: two requests for the same query are between the search and
\* the answer at the same time, with different result lists.
C17_Witness ==
  \E p, q \in Callers :
    /\ p # q
    /\ req[p].pc = "answer" /\ req[q].pc = "answer"
    /\ req[p].body = req[q].body
    /\ Len(req[p].ret) = 2
    /\ req[p].ret # req[q].ret

\* the entry the claim describes for the k-th result
DescribedEntry(r, k) ==
  Cat(Cat(Cat(Cat(Cat(Cat(Cat(Lit(<<"[">>), NumberToString(k)),
                          Lit(<<"]", " ", "(">>)),
                      IF r.title # None THEN r.title[1]
                      ELSE Cat(Cat(Spelled(r.sourceType), Lit(<<"/">>)),
                               Spelled(r.sourceId))),
                  Lit(<<",", " ", "r", "e", "l", "e", "v", "a", "n", "c",
                        "i", "a", ":", " ">>)),
              ToFixed0(r.similarity)),
          Lit(<<"%", ")", "\n">>)),
      r.content)

\* C18: the context holds one entry for each result, in the order of the
\* results and numbered from 1, each with the label of the result (its
\* title, or sourceType/sourceId when it has none) and its whole content.
C18_ContextEntries ==
  \A q \in Callers :
    (SearchReturned(q) /\ req[q].body.includeAnswer /\ Len(req[q].ret) > 0)
      => req[q].context =
           Join([k \in 1..Len(req[q].ret) |->
                   DescribedEntry(req[q].ret[k], k)],
                Lit(<<"\n", "\n", "-", "-", "-", "\n", "\n">>))

\* C18 witness: a context was built from a result with a title and a result
\* without one, one of them with a content of more than 500 characters.
C18_Witness ==
  \E q \in Callers :
    /\ req[q].pc = "answer"
    /\ req[q].context # <<>>
    /\ \E x, y \in Range(req[q].ret) :
         /\ x.title # None /\ y.title = None
         /\ StrLen(y.content) > 500

\* the least length below which scripts/index-knowledge.ts passes a text by
MinIndexedTextLength == 30

\* C19 (as claimed): no stored chunk is shorter than the minimum useful
\* length, whatever content index was called with.
C19_NoShortChunkStored ==
  \A r \in store : StrLen(r.content) >= MinIndexedTextLength

\* C20 (as claimed): a request whose filter names a source type the indexer
\* never writes is answered with a rejection, and the store is not accessed
\* for it.
C20_InvalidFilterRejected ==
  \A q \in Callers :
    (req[q].body.filters.sourceTypes \ SourceTypes # {})
      => /\ ~req[q].accessed
         /\ req[q].pc = "responded" => req[q].response.status = 400

\* two similarities are the same number
SimEq(a, b) == SimGE(a, b) /\ SimGE(b, a)

IsZero(v) == \A k \in 1..Len(v) : v[k] = 0

FailedPartway(c) ==
  /\ calls[c].pc = "thrown"
  /\ calls[c].err \in LoopErrors
  /\ Len(calls[c].chunks) >= 2
  /\ IdsOf(c) # {}

\* C22: while rows left by an index call that failed partway are stored,
\* every index call made for their natural key returns the empty sequence
\* and stores nothing, and no step but a delete of the key removes, adds or
\* changes a row under the key, save a step of a call that was made
\* earlier and is still in progress.
C22_GapStaysUntilDelete ==
  [][\A c \in Calls :
       FailedPartway(c) =>
         /\ \A d \in Calls :
              (/\ calls[d].pc = "idle"
               /\ calls'[d].pc # "idle"
               /\ calls'[d].err # "findFirst"
               /\ KeyOf(calls'[d].meta) = KeyOf(calls[c].meta))
              => /\ calls'[d].pc = "returned"
                 /\ calls'[d].ret = <<>>
                 /\ store' = store
         /\ LET key == KeyOf(calls[c].meta)
            IN \/ /\ del'.n # del.n
                  /\ <<del'.sourceType, del'.sourceId>> = key
               \/ /\ \A r \in {x \in store : KeyOf(x) = key} :
                       \E x \in store' : x.id = r.id
                  /\ \A r \in {x \in store' : KeyOf(x) = key} :
                       \/ r \in store
                       \/ Running(r.id[1])]_vars

\* C22 witness: the embedding call failed for the second chunk of an
\* artifact, a later call for the key with another content returned the
\* empty sequence, and the one row under the key is that of the first chunk.
C22_Witness ==
  \E c, d \in Calls :
    /\ c < d /\ SameArtifact(c, d)
    /\ FailedPartway(c) /\ calls[c].err = "embed"
    /\ calls[d].content # calls[c].content
    /\ calls[d].pc = "returned" /\ calls[d].ret = <<>>
    /\ {r.id : r \in RowsOf(calls[c].meta.sourceType,
                              calls[c].meta.sourceId)} = {NewId(c, 1)}
    /\ del.n = 0

\* the request is inside the semantic phase of searchKnowledge
InSemanticPhase(q) == req[q].pc \in {"embed", "fetch", "vectors"}

\* C23: a search is in its semantic phase only when its lexical phase
\* produced fewer than limit results; a search whose lexical phase produced
\* at least limit results returns without an embedding of the query and
\* without fetched chunks, and its semantic phase has not failed either.
C23_SemanticOnlyBelowLimit ==
  \A q \in Callers :
    /\ InSemanticPhase(q) => Len(req[q].textMatches) < req[q].limit
    /\ (/\ req[q].accessed
        /\ ~InSemanticPhase(q)
        /\ req[q].pc # "text"
        /\ "text" \notin req[q].failed
        /\ Len(req[q].textMatches) >= req[q].limit)
       => /\ req[q].queryEmbedding = NullVector
          /\ req[q].chunks = <<>>
          /\ "semantic" \notin req[q].failed
          /\ req[q].results = req[q].textMatches

\* C23 witness: a search with limit 1 has returned its one lexical hit with
\* no embedding of the query, while a stored chunk that has a vector and
\* satisfies the filters is no lexical hit.
C23_Witness ==
  \E q \in Callers :
    /\ SearchReturned(q)
    /\ req[q].limit = 1
    /\ Len(req[q].textMatches) = 1
    /\ req[q].queryEmbedding = NullVector
    /\ \E r \in store :
         /\ r.embedding # NullVector
         /\ Satisfies(r, req[q].where)
         /\ ~TextMatch(r, req[q].body.query.text)

\* the result entered the list in the semantic phase
SemanticOnly(q, x) == \A t \in Range(req[q].textMatches) : t.id # x.id

\* C24: a result that is no lexical hit has a similarity >= minSimilarity,
\* and that similarity is the cosine of the query's vector and the vector
\* stored with the chunk; so a stored chunk that is no lexical hit and has
\* no vector, or a cosine below minSimilarity, is in no result list.
C24_SemanticHitsPassThreshold ==
  \A q \in Callers :
    SearchReturned(q) =>
      /\ \A x \in Range(req[q].ret) :
           SemanticOnly(q, x)
             => /\ req[q].queryEmbedding # NullVector
                /\ SimGE(x.similarity, req[q].minSimilarity)
                /\ ~TextMatch(x, req[q].body.query.text)
      /\ \A r \in store, x \in Range(req[q].ret) :
           (r.id = x.id /\ SemanticOnly(q, x))
             => /\ r.embedding # NullVector
                /\ x.similarity =
                     cosineSimilarity(req[q].queryEmbedding, r.embedding)

\* C24 witness: a result list holds a chunk found by its vector alone, and
\* another stored chunk that satisfies the filters and is no lexical hit
\* is left out, its cosine being below minSimilarity.
C24_Witness ==
  \E q \in Callers :
    /\ SearchReturned(q)
    /\ Len(req[q].ret) < req[q].limit
    /\ \E x \in Range(req[q].ret) : SemanticOnly(q, x)
    /\ \E r \in store :
         /\ Satisfies(r, req[q].where)
         /\ ~TextMatch(r, req[q].body.query.text)
         /\ r.embedding # NullVector
         /\ ~SimGE(cosineSimilarity(req[q].queryEmbedding, r.embedding),
                   req[q].minSimilarity)
         /\ ~Has(req[q].ret, r.id)

\* the row carries the metadata of the call
CarriesMeta(r, m) ==
  /\ r.sourceType = m.sourceType /\ r.sourceId = m.sourceId
  /\ r.lessonId = m.lessonId /\ r.subjectId = m.subjectId
  /\ r.programId = m.programId /\ r.title = m.title /\ r.tags = m.tags

\* C25: when an index call that found no row under its key has returned, no
\* delete of the key having come since it was made, it has returned one id
\* for each chunk of chunkText(content), the rows of the call are those
\* with these ids, and the k-th id is that of a row with the k-th chunk as
\* its content, its estimated token count, the metadata of the call and an
\* embedding vector.
C25_CompleteCallStoresAllChunks ==
  \A c \in Calls :
    (calls[c].pc = "returned" /\ ~calls[c].existing /\ ~calls[c].delSince)
      => LET chunks == chunkText(calls[c].content)
         IN /\ Len(calls[c].ret) = Len(chunks)
            /\ IdsOf(c) = Range(calls[c].ret)
            /\ Cardinality(IdsOf(c)) = Len(chunks)
            /\ \A k \in 1..Len(chunks) :
                 \E r \in store :
                   /\ r.id = calls[c].ret[k]
                   /\ r.content = chunks[k]
                   /\ r.tokenCount = estimateTokens(chunks[k])
                   /\ CarriesMeta(r, calls[c].meta)
                   /\ r.embedding \in Vectors

\* C25 witness: a call for the titled transcript has returned two ids; the
\* rows with these ids hold the two chunks of its content, in order, with
\* the title and a vector each.
C25_Witness ==
  \E c \in Calls :
    /\ calls[c].pc = "returned" /\ ~calls[c].existing
    /\ calls[c].meta = MetaTranscript
    /\ Len(calls[c].ret) = 2
    /\ \E r1, r2 \in store :
         /\ r1.id = calls[c].ret[1] /\ r2.id = calls[c].ret[2]
         /\ r1.content = chunkText(LongText)[1]
         /\ r2.content = chunkText(LongText)[2]
         /\ r1.content # r2.content
         /\ r1.title = Some(TitleGlu) /\ r2.title = Some(TitleGlu)
         /\ r1.embedding # NullVector /\ r2.embedding # NullVector

\* C26: every result of a search satisfies every filter of the request: its
\* source type is one of sourceTypes, and its subjectId, lessonId and
\* programId (which is read from the stored chunk, a result not carrying
\* it) are those asked for.
C26_ResultsSatisfyFilters ==
  \A q \in Callers :
    SearchReturned(q) =>
      LET f == req[q].body.filters
      IN \A x \in Range(req[q].ret) :
           /\ f.sourceTypes # {} => x.sourceType \in f.sourceTypes
           /\ f.subjectId # NULL => x.subjectId = f.subjectId
           /\ f.lessonId # NULL => x.lessonId = f.lessonId
           /\ f.programId # NULL
                => \A r \in store : r.id = x.id => r.programId = f.programId

\* C26 witness: a search filtered by lessonId and programId has returned a
\* chunk found in the semantic phase, while a stored chunk of another lesson
\* and program that matches the query's text is not in the list.
C26_Witness ==
  \E q \in Callers :
    /\ SearchReturned(q)
    /\ req[q].body.filters.lessonId = "l2"
    /\ req[q].body.filters.programId = "p1"
    /\ \E x \in Range(req[q].ret) :
         SemanticOnly(q, x) /\ x.lessonId = "l2"
    /\ \E r \in store :
         /\ r.lessonId # "l2" /\ r.programId # "p1"
         /\ TextMatch(r, req[q].body.query.text)
         /\ r.embedding # NullVector
         /\ ~Has(req[q].ret, r.id)

\* C27 (as claimed): every chunk that chunkText returns has an estimate of
\* at most maxTokens, unless it holds a sentence whose own estimate exceeds
\* maxTokens.
C27_ChunksWithinMaxTokens ==
  chunker.pc = "returned"
    => \A k \in 1..Len(chunker.chunks) :
         \/ estimateTokens(chunker.chunks[k]) <= chunker.maxTokens
         \/ \E s \in Range(SplitSentences(chunker.text)) :
              /\ estimateTokens(s) > chunker.maxTokens
              /\ includes(chunker.chunks[k], trim(s))

\* C28 (as claimed): once deleteIndexedContent has returned, every row under
\* its key was written by an index call made after it returned.
C28_NoRowAfterDeleteButByLaterCall ==
  del.n > 0
    => \A r \in RowsOf(del.sourceType, del.sourceId) :
         ~calls[r.id[1]].delSince

\* the result is a hit of the lexical phase
LexicalHit(q, x) == \E t \in Range(req[q].textMatches) : t.id = x.id

\* C29 (as claimed): in a result list every lexical hit stands before every
\* hit of the semantic phase alone.
C29_LexicalAboveSemantic ==
  \A q \in Callers :
    SearchReturned(q) =>
      \A i, j \in 1..Len(req[q].ret) :
        (LexicalHit(q, req[q].ret[i]) /\ SemanticOnly(q, req[q].ret[j]))
          => i < j

\* C29 (amended): in a result list a lexical hit stands before every hit of
\* the semantic phase alone whose similarity is below the lexical hit's
\* score, and after every such hit whose similarity is above it.
C29_LexicalAboveLowerSemantic ==
  \A q \in Callers :
    SearchReturned(q) =>
      \A i, j \in 1..Len(req[q].ret) :
        (LexicalHit(q, req[q].ret[i]) /\ SemanticOnly(q, req[q].ret[j]))
          => /\ req[q].ret[i].similarity \in {Sim(95, 10000), Sim(85, 10000)}
             /\ SimGT(req[q].ret[i].similarity, req[q].ret[j].similarity)
                  => i < j
             /\ SimGT(req[q].ret[j].similarity, req[q].ret[i].similarity)
                  => j < i

\* C29 witness: a result list holds a hit of the semantic phase alone with
\* a similarity above 0.95, then a lexical hit, then a hit of the semantic
\* phase alone with a similarity below 0.85.
C29_Witness ==
  \E q \in Callers :
    /\ SearchReturned(q)
    /\ Len(req[q].ret) = 3
    /\ SemanticOnly(q, req[q].ret[1])
    /\ SimGT(req[q].ret[1].similarity, Sim(95, 10000))
    /\ LexicalHit(q, req[q].ret[2])
    /\ SemanticOnly(q, req[q].ret[3])
    /\ SimGT(Sim(85, 10000), req[q].ret[3].similarity)

\* the sentences from the i-th on are found whole, white space at their
\* ends aside, in the chunks from the k-th on, each in the chunk of the one
\* before it or in a later chunk
RECURSIVE FoundInOrder(_, _, _, _)
FoundInOrder(sentences, i, chunks, k) ==
  IF i > Len(sentences) THEN TRUE
  ELSE LET holding == {j \in k..Len(chunks) :
                         includes(chunks[j], trim(sentences[i]))}
       IN IF trim(sentences[i]) = <<>>
          THEN FoundInOrder(sentences, i + 1, chunks, k)
          ELSE /\ holding # {}
               /\ FoundInOrder(sentences, i + 1, chunks,
                               CHOOSE j \in holding : \A h \in holding : j <= h)

\* C30: chunkText loses no text: every sentence of the text is whole in a
\* returned chunk, white space at its ends aside, and the sentences are met
\* in the order of the text when the chunks are gone through from the first
\* to the last.
C30_NoSentenceLost ==
  chunker.pc = "returned"
    => FoundInOrder(SplitSentences(chunker.text), 1, chunker.chunks, 1)

\* C30 witness: a text of two sentences came back as two chunks, the first
\* sentence in the first chunk only (the overlap takes its last word alone)
\* and the second in the second chunk only.
C30_Witness ==
  /\ chunker.pc = "returned"
  /\ LET sentences == SplitSentences(chunker.text)
     IN /\ Len(sentences) = 2
        /\ Len(chunker.chunks) = 2
        /\ chunker.chunks[1] = sentences[1]
        /\ ~includes(chunker.chunks[2], sentences[1])
        /\ ~includes(chunker.chunks[1], sentences[2])
        /\ includes(chunker.chunks[2], sentences[2])
        /\ sentences[2] # <<>>

====
